---- MODULE Spec2Model ----
(***************************************************************************)
(* Canvas synchronisation service (CanvasSyncService) of the Obsidian      *)
(* plugin: the registry of canvas groups, the derivation of a new canvas   *)
(* view (createNewCanvasView / updateCanvasGroup) and the propagation of   *)
(* node operations through the operation queue (processOperation /         *)
(* executeOperation).                                                      *)
(*                                                                         *)
(* JavaScript runs every callback to completion; an async method gives up  *)
(* control only at an await.  Each action below is therefore one           *)
(* synchronous stretch of code between two awaits.                         *)
(*                                                                         *)
(* A path is a sequence of characters; the extension ".canvas" is kept as  *)
(* one character of that sequence.                                         *)
(***************************************************************************)
EXTENDS Integers, Sequences, FiniteSets, TLC

(***************************** bounds **************************************)
\* number of processOperation calls made in a run
MaxOps == 3
\* number of createNewCanvasView calls made in a run
MaxDerive == 2
\* number of settings-tab actions (delete one group / reset all) in a run
MaxUnlink == 1
\* number of vault calls (read, modify, create) that fail for an outside reason
MaxFail == 1
\* number of those events, of all four kinds together, in a run
MaxEvents == 4
\* number of edges of a target document in the runs over documents
MaxEdges == 2
\* number of processOperation calls made in a run over documents
MaxApply == 2

(***************************** strings *************************************)
Ext == ".canvas"
Digits == <<"0", "1", "2", "3", "4", "5", "6", "7", "8", "9">>

IsDigit(ch) == \E i \in 1..10 : Digits[i] = ch

DigitVal(ch) == (CHOOSE i \in 1..10 : Digits[i] = ch) - 1

\* parseInt(s) of a non-empty string of decimal digits
RECURSIVE parseInt(_)
parseInt(s) ==
  IF s = <<>> THEN 0
  ELSE 10 * parseInt(SubSeq(s, 1, Len(s) - 1)) + DigitVal(s[Len(s)])

\* `${version}` : the decimal numeral of a natural number
RECURSIVE NumToStr(_)
NumToStr(n) ==
  IF n < 10 THEN <<Digits[n + 1]>>
  ELSE NumToStr(n \div 10) \o <<Digits[(n % 10) + 1]>>

\* first index at which pat occurs in s, 0 when it does not occur
IndexOf(s, pat) ==
  LET hits == {i \in 1..(Len(s) - Len(pat) + 1) :
                 SubSeq(s, i, i + Len(pat) - 1) = pat}
  IN IF hits = {} THEN 0 ELSE CHOOSE i \in hits : \A j \in hits : i <= j

\* s.replace(pat, rep) with a string pattern: the first occurrence only
ReplaceFirst(s, pat, rep) ==
  LET i == IndexOf(s, pat)
  IN IF i = 0 THEN s
     ELSE SubSeq(s, 1, i - 1) \o rep \o SubSeq(s, i + Len(pat), Len(s))

\* filePath.split('/').pop(), which is also TFile.name
FileName(path) ==
  LET slashes == {i \in 1..Len(path) : path[i] = "/"}
      last == IF slashes = {} THEN 0
              ELSE CHOOSE i \in slashes : \A j \in slashes : j <= i
  IN SubSeq(path, last + 1, Len(path))

\* number of digits at the end of s
TrailingDigits(s) ==
  LET ks == {k \in 0..Len(s) : \A i \in (Len(s) - k + 1)..Len(s) : IsDigit(s[i])}
  IN CHOOSE k \in ks : \A j \in ks : j <= k

NoMatch == [ok |-> FALSE, prefix |-> <<>>, digits |-> <<>>]

\* baseName.match(/(.+)C(\d+)$/)
MatchVersioned(baseName) ==
  LET n == Len(baseName)
      k == TrailingDigits(baseName)
  IN IF k >= 1 /\ n - k >= 2 /\ baseName[n - k] = "C"
     THEN [ok |-> TRUE,
           prefix |-> SubSeq(baseName, 1, n - k - 1),
           digits |-> SubSeq(baseName, n - k + 1, n)]
     ELSE NoMatch

\* fileName.match(new RegExp(`^${prefix}C(\\d+)\\.canvas$`))
MatchVersionPattern(prefix, fileName) ==
  LET n == Len(fileName)
      p == Len(prefix)
  IN IF /\ n >= p + 3
        /\ SubSeq(fileName, 1, p) = prefix
        /\ fileName[p + 1] = "C"
        /\ fileName[n] = Ext
        /\ \A i \in (p + 2)..(n - 1) : IsDigit(fileName[i])
     THEN [ok |-> TRUE, prefix |-> prefix, digits |-> SubSeq(fileName, p + 2, n - 1)]
     ELSE NoMatch

Max(a, b) == IF a >= b THEN a ELSE b


(***************************** documents ***********************************)
\* paths of the canvas files used in the initial states
A == <<"d", "/", "A", Ext>>
AC1 == <<"d", "/", "A", "C", "1", Ext>>
AC2 == <<"d", "/", "A", "C", "2", Ext>>
AC3 == <<"d", "/", "A", "C", "3", Ext>>

\* a node keeps its id and its text; an edge its two end points
Node(id, text) == [id |-> id, text |-> text]
Edge(from, to) == [fromNode |-> from, toNode |-> to]

\* CanvasData: nodes is keyed by node id
CanvasData(nodes, edges) == [nodes |-> nodes, edges |-> edges]

\* The content of a file: text that JSON.parse accepts (wf) holding a
\* CanvasData, written either as the editor wrote it or as
\* JSON.stringify(data, null, 2) writes it (pretty); or text it rejects.
FileContent(data, pretty) ==
  [wf |-> TRUE, nodes |-> data.nodes, edges |-> data.edges, pretty |-> pretty]
BadContent == [wf |-> FALSE, nodes |-> <<>>, edges |-> <<>>, pretty |-> FALSE]

EmptyCanvas == FileContent(CanvasData(<<>>, <<>>), FALSE)
OneNodeCanvas ==
  FileContent(CanvasData([n \in {"n1"} |-> Node("n1", "old")],
                         <<Edge("n1", "n1")>>), FALSE)

\* JSON.parse(content): the parsed CanvasData (the caller checks wf first)
JSONparse(content) == CanvasData(content.nodes, content.edges)
\* JSON.stringify(canvasData, null, 2)
JSONstringify(data) == FileContent(data, TRUE)

(***************************** operations **********************************)
OperationType == {"CreateNode", "DeleteNode", "UpdateNodeText"}

Operation(id, type, nodeId, text, sourceFile) ==
  [id |-> id, type |-> type, nodeId |-> nodeId, text |-> text,
   sourceFile |-> sourceFile]

\* handleCreateNode: canvasData.nodes[nodeData.id] = nodeData
handleCreateNode(canvasData, nodeId, text) ==
  CanvasData([n \in (DOMAIN canvasData.nodes) \cup {nodeId} |->
                IF n = nodeId THEN Node(nodeId, text) ELSE canvasData.nodes[n]],
             canvasData.edges)

\* (mutant) the node is deleted and the edges are kept
handleDeleteNode_KeepEdges(canvasData, nodeId) ==
  [nodes |-> [n \in (DOMAIN canvasData.nodes) \ {nodeId} |-> canvasData.nodes[n]],
   edges |-> canvasData.edges]

\* handleDeleteNode: delete the node, then filter the edges
handleDeleteNode(canvasData, nodeId) ==
  CanvasData([n \in (DOMAIN canvasData.nodes) \ {nodeId} |-> canvasData.nodes[n]],
             SelectSeq(canvasData.edges,
                       LAMBDA e : e.fromNode # nodeId /\ e.toNode # nodeId))

\* (mutant) a node that does not exist is created with the text
handleUpdateNodeText_Upsert(canvasData, nodeId, newText) ==
  [nodes |-> [n \in (DOMAIN canvasData.nodes) \cup {nodeId} |->
                [id |-> nodeId, text |-> newText]],
   edges |-> canvasData.edges]

\* handleUpdateNodeText: only when the node exists
handleUpdateNodeText(canvasData, nodeId, newText) ==
  IF nodeId \in DOMAIN canvasData.nodes
  THEN CanvasData([canvasData.nodes EXCEPT ![nodeId].text = newText],
                  canvasData.edges)
  ELSE canvasData

\* the switch on operation.type in executeOperation
ApplyOperation(canvasData, op) ==
  CASE op.type = "CreateNode" -> handleCreateNode(canvasData, op.nodeId, op.text)
    [] op.type = "DeleteNode" -> handleDeleteNode(canvasData, op.nodeId)
    [] op.type = "UpdateNodeText" ->
         handleUpdateNodeText(canvasData, op.nodeId, op.text)
    [] OTHER -> canvasData


(***************************** state ***************************************)
VARIABLES
  vault,                \* app.vault: path of every existing file -> content
  groupFiles,           \* CanvasGroup objects, by identity: files
  groupLastSync,        \* CanvasGroup objects, by identity: lastSync
  canvasGroups,         \* this.canvasGroups: the CanvasGroup objects listed
  processingOperations, \* this.processingOperations
  operationQueue,       \* this.operationQueue (ids of operations)
  ops,                  \* every operation passed to processOperation so far
  calls,                \* the processOperation calls: where each one stands
  derives,              \* the createNewCanvasView calls: where each one stands
  unlinks,              \* number of settings-tab actions done
  fails,                \* number of vault calls that failed for an outside reason
  ioLog,                \* history: every target visit of executeOperation
  deqLog,               \* history: every operation taken from the queue
  savedData,            \* the plugin's data file: the groups last saved
  loaded                \* the plugin is loaded (onunload has not run)

vars == <<vault, groupFiles, groupLastSync, canvasGroups, processingOperations,
          operationQueue, ops, calls, derives, unlinks, fails, ioLog, deqLog,
          savedData, loaded>>

\* the run may take one more event from outside
MoreEvents ==
  Len(ops) + Len(derives) + unlinks + fails + (IF loaded THEN 0 ELSE 1) < MaxEvents

\* a processOperation call: pc is
\*   "returned"  it found the engine busy, enqueued and returned
\*   "read"      in the loop, awaiting vault.read of target idx of group grp
\*   "write"     in the loop, awaiting vault.modify of that target with data
\*   "ret"       in the loop, awaiting the finished executeOperation(op)
\*   "done"      it left the loop and returned
Call(pc, op, grp, idx, data) ==
  [pc |-> pc, op |-> op, grp |-> grp, idx |-> idx, data |-> data]
NoData == CanvasData(<<>>, <<>>)

InLoop(c) == calls[c].pc \in {"read", "write", "ret"}

\* a createNewCanvasView call: pc is
\*   "read"    awaiting vault.read(sourceFile)
\*   "create"  awaiting vault.create(newPath, content)
\*   "ok"      returned newPath
\*   "failed"  returned null
\* seen (history) is the member list of the source's group when the new
\* name was computed, <<>> when it had no group
Derive(pc, src, content, newPath, seen) ==
  [pc |-> pc, src |-> src, content |-> content, newPath |-> newPath,
   seen |-> seen]

(***************************** registry ************************************)
\* Array.prototype.includes
Includes(seq, x) == \E i \in 1..Len(seq) : seq[i] = x

\* findGroupForFile on a list of groups: the first group listing the file,
\* 0 for null
FindGroupIn(groups, files, filePath) ==
  LET hits == {i \in 1..Len(groups) : Includes(files[groups[i]], filePath)}
  IN IF hits = {} THEN 0
     ELSE groups[CHOOSE i \in hits : \A j \in hits : i <= j]

\* (mutant) a file of no group is given the first group
findGroupForFile_OrFirst(filePath) ==
  IF FindGroupIn(canvasGroups, groupFiles, filePath) # 0
  THEN FindGroupIn(canvasGroups, groupFiles, filePath)
  ELSE IF canvasGroups # <<>> THEN canvasGroups[1] ELSE 0

\* (mutant) the groups removed from the registry are searched as well
findGroupForFile_Detached(filePath) ==
  FindGroupIn([g \in 1..Len(groupFiles) |-> g], groupFiles, filePath)

findGroupForFile(filePath) == FindGroupIn(canvasGroups, groupFiles, filePath)

\* the file is listed by a group of the registry
InSomeGroup(filePath) ==
  \E i \in 1..Len(canvasGroups) :
    \E j \in 1..Len(groupFiles[canvasGroups[i]]) :
      groupFiles[canvasGroups[i]][j] = filePath

\* app.vault.getAbstractFileByPath(path) instanceof TFile
FileExists(path) == path \in DOMAIN vault

(***************************** derivation **********************************)
\* the loop of createNewCanvasView over group.files: the highest version of
\* the members named <prefix>C<n>.canvas, starting from the source's own
RECURSIVE MaxVersionFrom(_, _, _, _)
MaxVersionFrom(files, prefix, i, maxVersion) ==
  IF i > Len(files) THEN maxVersion
  ELSE LET vMatch == MatchVersionPattern(prefix, FileName(files[i]))
       IN MaxVersionFrom(files, prefix, i + 1,
            IF vMatch.ok THEN Max(maxVersion, parseInt(vMatch.digits))
            ELSE maxVersion)

\* the version a versioned source gets: from its group when it has one
NextVersion(sourceFilePath, prefix, version) ==
  LET group == findGroupForFile(sourceFilePath)
  IN IF group # 0
     THEN MaxVersionFrom(groupFiles[group], prefix, 1, version) + 1
     ELSE version + 1

\* the name createNewCanvasView gives the new file
NewFileName(sourceFilePath) ==
  LET baseName == ReplaceFirst(FileName(sourceFilePath), <<Ext>>, <<>>)
      match == MatchVersioned(baseName)
  IN IF match.ok
     THEN match.prefix \o <<"C">>
            \o NumToStr(NextVersion(sourceFilePath, match.prefix,
                                    parseInt(match.digits)))
            \o <<Ext>>
     ELSE baseName \o <<"C", "1", Ext>>

\* sourceFile.path.replace(sourceFile.name, newFileName)
NewFilePath(sourceFilePath) ==
  ReplaceFirst(sourceFilePath, FileName(sourceFilePath),
               NewFileName(sourceFilePath))


\* Date.now() at an event of the run: the instant is named by the event
\* ("loaded": the value read from the settings), so that two assignments of
\* lastSync are told apart
Stamp(kind, id) == [at |-> kind, id |-> id]

\* updateCanvasGroup(sourceFilePath, newFilePath) of call d: the registry
\* afterwards
updateCanvasGroup(sourceFilePath, newFilePath, d) ==
  LET group == findGroupForFile(sourceFilePath)
  IN IF group # 0
     THEN IF ~Includes(groupFiles[group], newFilePath)
          THEN [files |-> [groupFiles EXCEPT ![group] = Append(@, newFilePath)],
                lastSync |-> [groupLastSync EXCEPT ![group] = Stamp("derive", d)],
                groups |-> canvasGroups]
          ELSE [files |-> groupFiles, lastSync |-> groupLastSync,
                groups |-> canvasGroups]
     ELSE [files |-> Append(groupFiles, <<sourceFilePath, newFilePath>>),
           lastSync |-> Append(groupLastSync, Stamp("derive", d)),
           groups |-> Append(canvasGroups, Len(groupFiles) + 1)]

\* a call of the vault completes (ok) or throws for a reason outside the
\* program, such as a file removed or a disk error
VaultCall(ok) ==
  /\ ok \/ (fails < MaxFail /\ MoreEvents)
  /\ fails' = IF ok THEN fails ELSE fails + 1

(***************************** propagation *********************************)
LogEntry(op, path, kind) == [op |-> op, path |-> path, kind |-> kind]

\* an entry of deqLog: the operation taken, the group executeOperation found
\* for it, and whether its source was listed by a group at that moment
Dequeue(op, group) ==
  [op |-> op.id, grp |-> group, member |-> InSomeGroup(op.sourceFile)]

\* (mutant) the flag is never found set
AlreadyProcessing_Never == FALSE

\* if (this.processingOperations) return;
AlreadyProcessing == processingOperations

\* (mutant) pop() instead of shift(): the newest operation first
QueueShift_Pop(q) == [head |-> q[Len(q)], rest |-> SubSeq(q, 1, Len(q) - 1)]

\* (mutant) the queue is emptied when its head is taken
QueueShift_Clear(q) == [head |-> Head(q), rest |-> <<>>]

\* this.operationQueue.shift()
QueueShift(q) == [head |-> Head(q), rest |-> Tail(q)]

\* (mutant) the source is not recognised and is treated as a target
IsSource_Never(filePath, op) == FALSE

\* if (filePath === operation.sourceFile) continue;
IsSource(filePath, op) == filePath = op.sourceFile

\* The for loop of executeOperation over the live group.files, from index i:
\* it skips the source and the members that are no file, and stops at the
\* first member it starts to read ("read") or at the end of the list ("ret").
RECURSIVE NextTarget(_, _, _, _)
NextTarget(op, g, i, lg) ==
  IF i > Len(groupFiles[g]) THEN [pc |-> "ret", idx |-> i, log |-> lg]
  ELSE IF IsSource(groupFiles[g][i], op) THEN NextTarget(op, g, i + 1, lg)
  ELSE IF ~FileExists(groupFiles[g][i])
       THEN NextTarget(op, g, i + 1,
                       Append(lg, LogEntry(op.id, groupFiles[g][i], "missing")))
  ELSE [pc |-> "read", idx |-> i, log |-> lg]

\* (mutant) the error of one target ends the loop over the members
OnTargetError_Abort(op, g, i, lg) ==
  [pc |-> "ret", idx |-> Len(groupFiles[g]) + 1, log |-> lg]

\* catch (error) inside the for loop: the error of target i is logged and
\* the loop goes on with the next member
OnTargetError(op, g, i, lg) == NextTarget(op, g, i + 1, lg)

\* (mutant) the loop stops while one operation is still queued
WhileCondition_MoreThanOne(q) == Len(q) > 1

\* while (this.operationQueue.length > 0)
WhileCondition(q) == Len(q) > 0

\* (mutant) the flag is left as it is when the loop ends
FinallyFlag_Kept == processingOperations

\* finally { this.processingOperations = false; }
FinallyFlag == FALSE

\* The head of the while loop of processOperation with queue q, up to the
\* next await: either the queue is empty and the finally block clears the
\* flag, or the head operation is taken and executeOperation runs up to its
\* first vault.read, or to its end.
LoopHead(q, flag, allOps) ==
  IF ~WhileCondition(q)
  THEN [proc |-> FinallyFlag, queue |-> q, call |-> Call("done", 0, 0, 0, NoData),
        lastSync |-> groupLastSync, log |-> ioLog, deq |-> deqLog]
  ELSE LET sh == QueueShift(q)
           op == allOps[sh.head]
           group == findGroupForFile(op.sourceFile)
       IN IF group = 0
          THEN [proc |-> flag, queue |-> sh.rest,
                call |-> Call("ret", op.id, 0, 0, NoData),
                lastSync |-> groupLastSync, log |-> ioLog,
                deq |-> Append(deqLog, Dequeue(op, 0))]
          ELSE LET nt == NextTarget(op, group, 1, ioLog)
               IN [proc |-> flag, queue |-> sh.rest,
                   call |-> Call(nt.pc, op.id, group, nt.idx, NoData),
                   lastSync |-> [groupLastSync EXCEPT ![group] = Stamp("op", op.id)],
                   log |-> nt.log,
                   deq |-> Append(deqLog, Dequeue(op, group))]

\* the operations the listener sends
OpInput(type, nodeId, text, src) ==
  [type |-> type, nodeId |-> nodeId, text |-> text, src |-> src]
OpInputs ==
  {OpInput("CreateNode", "n1", "hi", A),
   OpInput("UpdateNodeText", "n1", "hi", A),
   OpInput("DeleteNode", "n1", "", AC2)}

\* processOperation(operation), up to its return or its first await
Submit(type, nodeId, text, src) ==
  /\ loaded
  /\ Len(ops) < MaxOps /\ MoreEvents
  /\ LET op == Operation(Len(ops) + 1, type, nodeId, text, src)
         allOps == Append(ops, op)
         q == Append(operationQueue, op.id)
     IN /\ ops' = allOps
        /\ IF AlreadyProcessing
           THEN /\ operationQueue' = q
                /\ calls' = Append(calls, Call("returned", 0, 0, 0, NoData))
                /\ UNCHANGED <<processingOperations, groupLastSync, ioLog, deqLog>>
           ELSE LET r == LoopHead(q, TRUE, allOps)
                IN /\ processingOperations' = r.proc
                   /\ operationQueue' = r.queue
                   /\ calls' = Append(calls, r.call)
                   /\ groupLastSync' = r.lastSync
                   /\ ioLog' = r.log
                   /\ deqLog' = r.deq
  /\ UNCHANGED <<vault, groupFiles, canvasGroups, derives, unlinks, fails,
                 savedData, loaded>>

\* executeOperation after `await this.app.vault.read(targetFile)`: parse,
\* apply and start vault.modify; or catch the error and go on with the loop
ReadDone(c, ok) ==
  /\ calls[c].pc = "read"
  /\ VaultCall(ok)
  /\ LET k == calls[c]
         op == ops[k.op]
         path == groupFiles[k.grp][k.idx]
     IN IF ok /\ FileExists(path) /\ vault[path].wf
        THEN /\ calls' = [calls EXCEPT ![c] =
                  Call("write", k.op, k.grp, k.idx,
                       ApplyOperation(JSONparse(vault[path]), op))]
             /\ ioLog' = Append(ioLog, LogEntry(op.id, path, "read"))
        ELSE LET why == IF ok /\ FileExists(path) THEN "parsefail" ELSE "readfail"
                 nt == OnTargetError(op, k.grp, k.idx,
                                     Append(ioLog, LogEntry(op.id, path, why)))
             IN /\ calls' = [calls EXCEPT ![c] =
                       Call(nt.pc, k.op, k.grp, nt.idx, NoData)]
                /\ ioLog' = nt.log
  /\ UNCHANGED <<vault, groupFiles, groupLastSync, canvasGroups,
                 processingOperations, operationQueue, ops, derives, unlinks, deqLog,
                 savedData, loaded>>

\* (mutant) the content is also written to a new file beside the target
Modify_WithCopy(v, path, content) ==
  [p \in (DOMAIN v) \cup {path \o <<"~">>} |->
     IF p = path \/ p = path \o <<"~">> THEN content ELSE v[p]]

\* vault.modify(targetFile, content): the existing file gets the content
Modify(v, path, content) == [v EXCEPT ![path] = content]

\* executeOperation after `await this.app.vault.modify(targetFile, ...)`:
\* the file holds the new content, or the call failed and the error is
\* caught; then the loop goes on
WriteDone(c, ok) ==
  /\ calls[c].pc = "write"
  /\ VaultCall(ok)
  /\ LET k == calls[c]
         op == ops[k.op]
         path == groupFiles[k.grp][k.idx]
         done == ok /\ FileExists(path)
         nt == IF done
               THEN NextTarget(op, k.grp, k.idx + 1,
                               Append(ioLog, LogEntry(op.id, path, "write")))
               ELSE OnTargetError(op, k.grp, k.idx,
                                  Append(ioLog, LogEntry(op.id, path, "writefail")))
     IN /\ vault' = IF done THEN Modify(vault, path, JSONstringify(k.data))
                    ELSE vault
        /\ calls' = [calls EXCEPT ![c] = Call(nt.pc, k.op, k.grp, nt.idx, NoData)]
        /\ ioLog' = nt.log
  /\ UNCHANGED <<groupFiles, groupLastSync, canvasGroups, processingOperations,
                 operationQueue, ops, derives, unlinks, deqLog, savedData, loaded>>

\* processOperation after `await this.executeOperation(op)`: back to the
\* head of the while loop
Resume(c) ==
  /\ calls[c].pc = "ret"
  /\ LET r == LoopHead(operationQueue, processingOperations, ops)
     IN /\ processingOperations' = r.proc
        /\ operationQueue' = r.queue
        /\ calls' = [calls EXCEPT ![c] = r.call]
        /\ groupLastSync' = r.lastSync
        /\ ioLog' = r.log
        /\ deqLog' = r.deq
  /\ UNCHANGED <<vault, groupFiles, canvasGroups, ops, derives, unlinks, fails,
                 savedData, loaded>>

(***************************** derivation calls ****************************)
\* createNewCanvasView(sourceFilePath), up to its first await
DeriveStart(src) ==
  /\ loaded
  /\ Len(derives) < MaxDerive /\ MoreEvents
  /\ derives' = Append(derives,
       Derive(IF FileExists(src) THEN "read" ELSE "failed", src, BadContent, <<>>,
              <<>>))
  /\ UNCHANGED <<vault, groupFiles, groupLastSync, canvasGroups,
                 processingOperations, operationQueue, ops, calls, unlinks,
                 fails, ioLog, deqLog, savedData, loaded>>

\* after `await this.app.vault.read(sourceFile)`: parse, compute the new
\* path and start vault.create; or catch the error and return null
DeriveReadDone(d, ok) ==
  /\ derives[d].pc = "read"
  /\ VaultCall(ok)
  /\ LET src == derives[d].src
     IN derives' = [derives EXCEPT ![d] =
          IF ok /\ FileExists(src) /\ vault[src].wf
          THEN Derive("create", src, vault[src], NewFilePath(src),
                      IF findGroupForFile(src) # 0
                      THEN groupFiles[findGroupForFile(src)] ELSE <<>>)
          ELSE Derive("failed", src, BadContent, <<>>, <<>>)]
  /\ UNCHANGED <<vault, groupFiles, groupLastSync, canvasGroups,
                 processingOperations, operationQueue, ops, calls, unlinks,
                 ioLog, deqLog, savedData, loaded>>

\* (mutant) the groups are updated although vault.create threw
OnCreateError_StillLinks(sourceFilePath, newFilePath, d) ==
  updateCanvasGroup(sourceFilePath, newFilePath, d)

\* catch (error) of createNewCanvasView: vault.create threw, so
\* updateCanvasGroup was not reached and the registry is as it was
OnCreateError(sourceFilePath, newFilePath, d) ==
  [files |-> groupFiles, lastSync |-> groupLastSync, groups |-> canvasGroups]

\* vault.create(path, content) fails when a file of that path exists
CreateSucceeds(path) == ~FileExists(path)

\* after `await this.app.vault.create(newFilePath, sourceContent)`: the file
\* exists and updateCanvasGroup runs in the same turn; or the call failed and
\* the error is caught
DeriveCreateDone(d, ok) ==
  /\ derives[d].pc = "create"
  /\ VaultCall(ok)
  /\ LET k == derives[d]
     IN IF ok /\ CreateSucceeds(k.newPath)
        THEN LET u == updateCanvasGroup(k.src, k.newPath, d)
             IN /\ vault' = [p \in (DOMAIN vault) \cup {k.newPath} |->
                               IF p = k.newPath THEN k.content ELSE vault[p]]
                /\ groupFiles' = u.files
                /\ groupLastSync' = u.lastSync
                /\ canvasGroups' = u.groups
                /\ derives' = [derives EXCEPT ![d].pc = "ok"]
        ELSE LET u == OnCreateError(k.src, k.newPath, d)
             IN /\ vault' = vault
                /\ groupFiles' = u.files
                /\ groupLastSync' = u.lastSync
                /\ canvasGroups' = u.groups
                /\ derives' = [derives EXCEPT ![d].pc = "failed"]
  /\ UNCHANGED <<processingOperations, operationQueue, ops, calls, unlinks,
                 ioLog, deqLog, savedData, loaded>>

(***************************** settings tab ********************************)
\* groups.splice(index, 1)
Splice(seq, i) == SubSeq(seq, 1, i - 1) \o SubSeq(seq, i + 1, Len(seq))

\* saveData(this.settings) with settings.canvasGroups = groups: the groups
\* written to the data file, each with its files and its lastSync
SaveSettings(groups) ==
  [i \in 1..Len(groups) |->
     [files |-> groupFiles[groups[i]], lastSync |-> groupLastSync[groups[i]]]]

\* the delete button of group i: splice, setCanvasGroups(groups), then
\* settings.canvasGroups = groups and saveSettings()
DeleteGroup(i) ==
  /\ loaded
  /\ unlinks < MaxUnlink /\ MoreEvents
  /\ i \in 1..Len(canvasGroups)
  /\ canvasGroups' = Splice(canvasGroups, i)
  /\ savedData' = SaveSettings(Splice(canvasGroups, i))
  /\ unlinks' = unlinks + 1
  /\ UNCHANGED <<vault, groupFiles, groupLastSync, processingOperations,
                 operationQueue, ops, calls, derives, fails, ioLog, deqLog,
                 loaded>>

\* the reset button: setCanvasGroups([]), then settings.canvasGroups = []
\* and saveSettings()
ResetAll ==
  /\ loaded
  /\ unlinks < MaxUnlink /\ MoreEvents
  /\ canvasGroups' = <<>>
  /\ savedData' = SaveSettings(<<>>)
  /\ unlinks' = unlinks + 1
  /\ UNCHANGED <<vault, groupFiles, groupLastSync, processingOperations,
                 operationQueue, ops, calls, derives, fails, ioLog, deqLog,
                 loaded>>

(***************************** plugin **************************************)
\* onunload (and the 'quit' handler): settings.canvasGroups =
\* syncService.getCanvasGroups(), then saveSettings(); the listeners and the
\* settings tab are removed, the calls in flight go on
OnUnload ==
  /\ loaded /\ MoreEvents
  /\ loaded' = FALSE
  /\ savedData' = SaveSettings(canvasGroups)
  /\ UNCHANGED <<vault, groupFiles, groupLastSync, canvasGroups,
                 processingOperations, operationQueue, ops, calls, derives,
                 unlinks, fails, ioLog, deqLog>>

(***************************** specification *******************************)
\* The initial states: the vault and the groups loaded from the settings,
\* which are what the data file holds.
\* A group may list a file that no longer exists (executeOperation expects
\* that: "无法找到目标文件").
Scenario1 ==
  [vault |-> (A :> EmptyCanvas) @@ (AC3 :> BadContent) @@ (AC1 :> OneNodeCanvas),
   files |-> << <<A, AC3, AC1>> >>]
Scenario2 ==
  [vault |-> (A :> EmptyCanvas) @@ (AC2 :> OneNodeCanvas),
   files |-> << <<A, AC1, AC3>> >>]
Scenarios == {Scenario1, Scenario2}

Init ==
  \E s \in Scenarios :
    /\ vault = s.vault
    /\ groupFiles = s.files
    /\ groupLastSync = [g \in 1..Len(s.files) |-> Stamp("loaded", g)]
    /\ canvasGroups = [g \in 1..Len(s.files) |-> g]
    /\ processingOperations = FALSE
    /\ operationQueue = <<>>
    /\ ops = <<>>
    /\ calls = <<>>
    /\ derives = <<>>
    /\ unlinks = 0
    /\ fails = 0
    /\ ioLog = <<>>
    /\ deqLog = <<>>
    /\ savedData = [g \in 1..Len(s.files) |->
                      [files |-> s.files[g], lastSync |-> Stamp("loaded", g)]]
    /\ loaded = TRUE

\* the files the user asks a new view of
DeriveSources == {A, AC1, AC2}

Next ==
  \/ \E i \in OpInputs : Submit(i.type, i.nodeId, i.text, i.src)
  \/ \E c \in 1..Len(calls), ok \in BOOLEAN : ReadDone(c, ok)
  \/ \E c \in 1..Len(calls), ok \in BOOLEAN : WriteDone(c, ok)
  \/ \E c \in 1..Len(calls) : Resume(c)
  \/ \E src \in DeriveSources : DeriveStart(src)
  \/ \E d \in 1..Len(derives), ok \in BOOLEAN : DeriveReadDone(d, ok)
  \/ \E d \in 1..Len(derives), ok \in BOOLEAN : DeriveCreateDone(d, ok)
  \/ \E i \in 1..Len(canvasGroups) : DeleteGroup(i)
  \/ ResetAll
  \/ OnUnload

Spec == Init /\ [][Next]_vars


\* The event loop runs the continuation of every await whose promise has
\* settled: a vault call completes or fails, and the awaiting call goes on.
DrainNext ==
  \/ \E c \in 1..Len(calls), ok \in BOOLEAN : ReadDone(c, ok)
  \/ \E c \in 1..Len(calls), ok \in BOOLEAN : WriteDone(c, ok)
  \/ \E c \in 1..Len(calls) : Resume(c)

FairSpec == Spec /\ WF_vars(DrainNext)

(***************************** runs over documents *************************)
\* Runs of the propagation alone over every small target document: the group
\* {A, AC1} with the target AC1 holding any nodes of NodeIds and any edges
\* between them (dangling ones too), and operations on n1 sent from A.
NodeIds == {"n1", "n2"}
EdgeSet == {Edge(f, t) : f \in NodeIds, t \in NodeIds}
SeqsUpTo(S, n) == UNION {[1..k -> S] : k \in 0..n}

HandlerInit ==
  \E ns \in SUBSET NodeIds, es \in SeqsUpTo(EdgeSet, MaxEdges) :
    /\ vault = (A :> EmptyCanvas) @@
               (AC1 :> FileContent(CanvasData([n \in ns |-> Node(n, "old")], es),
                                   FALSE))
    /\ groupFiles = << <<A, AC1>> >>
    /\ groupLastSync = <<Stamp("loaded", 1)>>
    /\ canvasGroups = <<1>>
    /\ processingOperations = FALSE
    /\ operationQueue = <<>>
    /\ ops = <<>>
    /\ calls = <<>>
    /\ derives = <<>>
    /\ unlinks = 0
    /\ fails = 0
    /\ ioLog = <<>>
    /\ deqLog = <<>>
    /\ savedData = << [files |-> <<A, AC1>>, lastSync |-> Stamp("loaded", 1)] >>
    /\ loaded = TRUE

HandlerInputs ==
  {OpInput("CreateNode", "n1", "hi", A),
   OpInput("UpdateNodeText", "n1", "hi", A),
   OpInput("DeleteNode", "n1", "", A)}

HandlerNext ==
  \/ \E i \in HandlerInputs :
       Len(ops) < MaxApply /\ Submit(i.type, i.nodeId, i.text, i.src)
  \/ \E c \in 1..Len(calls), ok \in BOOLEAN : ReadDone(c, ok)
  \/ \E c \in 1..Len(calls), ok \in BOOLEAN : WriteDone(c, ok)
  \/ \E c \in 1..Len(calls) : Resume(c)

HandlerSpec == HandlerInit /\ [][HandlerNext]_vars

(***************************** runs over names *****************************)
\* Runs of createNewCanvasView alone over source files of several shapes of
\* path: with and without a version, version 9 (the next has two digits), a
\* file at the root of the vault, and a file in a folder whose name holds the
\* name of the file ("A.canvas/A.canvas").
AC9 == <<"d", "/", "A", "C", "9", Ext>>
B == <<"B", Ext>>
AinA == <<"A", Ext, "/", "A", Ext>>
NamingPaths == {A, AC1, AC2, AC9, B, AinA}
NamingRegistries == {<<>>, << <<A, AC1>> >>}

NamingInit ==
  \E files \in NamingRegistries :
    /\ vault = [p \in NamingPaths |-> EmptyCanvas]
    /\ groupFiles = files
    /\ groupLastSync = [g \in 1..Len(files) |-> Stamp("loaded", g)]
    /\ canvasGroups = [g \in 1..Len(files) |-> g]
    /\ processingOperations = FALSE
    /\ operationQueue = <<>>
    /\ ops = <<>>
    /\ calls = <<>>
    /\ derives = <<>>
    /\ unlinks = 0
    /\ fails = 0
    /\ ioLog = <<>>
    /\ deqLog = <<>>
    /\ savedData = [g \in 1..Len(files) |->
                      [files |-> files[g], lastSync |-> Stamp("loaded", g)]]
    /\ loaded = TRUE

NamingNext ==
  \/ \E src \in NamingPaths : DeriveStart(src)
  \/ \E d \in 1..Len(derives), ok \in BOOLEAN : DeriveReadDone(d, ok)
  \/ \E d \in 1..Len(derives), ok \in BOOLEAN : DeriveCreateDone(d, ok)

NamingSpec == NamingInit /\ [][NamingNext]_vars

(***************************** history predicates **************************)
LoopCalls == {c \in 1..Len(calls) : InLoop(c)}
Draining == LoopCalls # {}

\* operation o was taken from the queue
Dequeued(o) == \E i \in 1..Len(deqLog) : deqLog[i].op = o
\* executeOperation(o) is suspended at a vault call
Executing(o) ==
  \E c \in 1..Len(calls) : calls[c].pc \in {"read", "write"} /\ calls[c].op = o
\* executeOperation(o) has returned
Finished(o) == Dequeued(o) /\ ~Executing(o)

SkipKinds == {"missing", "readfail", "parsefail", "writefail"}
LogIndices == 1..Len(ioLog)

\* a processOperation call was made in this step
Submitted == Len(ops') = Len(ops) + 1

(***************************** C1 ******************************************)
\* C1: at most one processOperation call is inside the dequeue-and-execute
\* loop at any time, and a call made while a loop is active only appends its
\* operation to the queue and returns: it touches nothing else.
C1_AtMostOneDrainLoop ==
  /\ [](Cardinality(LoopCalls) <= 1)
  /\ [][(Submitted /\ Draining) =>
          /\ calls'[Len(calls')].pc = "returned"
          /\ SubSeq(calls', 1, Len(calls)) = calls
          /\ operationQueue' = Append(operationQueue, Len(ops'))
          /\ UNCHANGED <<vault, groupFiles, groupLastSync, canvasGroups,
                         processingOperations, ioLog, deqLog>>]_vars

\* a call is suspended on the read of a target while two later calls have
\* enqueued and returned
C1_Witness ==
  /\ Len(calls) = 3
  /\ calls[1].pc = "read"
  /\ calls[2].pc = "returned"
  /\ calls[3].pc = "returned"
  /\ Len(operationQueue) = 2

(***************************** C2 ******************************************)
\* C2: operations leave the queue in the order they were submitted, and no
\* target is visited (read, written or skipped) for an operation before every
\* operation submitted earlier has finished with all of its targets.
C2_PropagationOrder ==
  /\ \A k \in 1..Len(deqLog) : deqLog[k].op = k
  /\ \A i, j \in LogIndices : i < j => ioLog[i].op <= ioLog[j].op
  /\ \A c \in 1..Len(calls) :
       calls[c].pc \in {"read", "write"} =>
         \A o \in 1..(calls[c].op - 1) : Finished(o)

\* three operations of the grouped source, the second and third submitted
\* while the first was suspended, were written to a target one after another
C2_Witness ==
  /\ Len(calls) = 3 /\ calls[2].pc = "returned" /\ calls[3].pc = "returned"
  /\ \E i, j, k \in LogIndices :
       /\ i < j /\ j < k
       /\ ioLog[i].op = 1 /\ ioLog[j].op = 2 /\ ioLog[k].op = 3
       /\ ioLog[i].kind = "write" /\ ioLog[j].kind = "write"
       /\ ioLog[k].kind = "write"

(***************************** C3 ******************************************)
\* every submitted operation is in the queue once or was taken from it once
ConsumedOnce ==
  /\ \A i, j \in 1..Len(deqLog) : i # j => deqLog[i].op # deqLog[j].op
  /\ \A i, j \in 1..Len(operationQueue) :
       i # j => operationQueue[i] # operationQueue[j]
  /\ \A o \in 1..Len(ops) :
       Dequeued(o) # (\E i \in 1..Len(operationQueue) : operationQueue[i] = o)
  /\ \A i \in 1..Len(operationQueue) : operationQueue[i] \in 1..Len(ops)

\* C3: every operation passed to processOperation is taken from the queue
\* exactly once, never twice and never lost, and, when every vault call
\* completes or fails, its execution eventually finishes.
C3_ConsumedExactlyOnce ==
  /\ []ConsumedOnce
  /\ \A o \in 1..MaxOps : (Len(ops) >= o) ~> Finished(o)

\* three operations were submitted, two of them while the engine was busy,
\* and all three were executed
C3_Witness ==
  /\ Len(ops) = 3 /\ calls[2].pc = "returned" /\ calls[3].pc = "returned"
  /\ \A o \in 1..3 : Finished(o)
  /\ ~processingOperations

(***************************** C4 ******************************************)
\* C4: an operation whose source is listed by no group when it is executed
\* visits no target: taking it from the queue changes no file, no member list
\* and no lastSync, and nothing is ever read or written on its behalf.
C4_UngroupedSourceNoOp ==
  /\ [](\A i \in LogIndices :
          \A k \in 1..Len(deqLog) : deqLog[k].op = ioLog[i].op => deqLog[k].member)
  /\ [][(Len(deqLog') > Len(deqLog) /\ ~deqLog'[Len(deqLog')].member) =>
          UNCHANGED <<vault, groupFiles, groupLastSync, canvasGroups, ioLog>>]_vars

\* an operation was executed while its source was in no group, although a
\* group with existing files was registered
C4_Witness ==
  /\ Len(deqLog) >= 1
  /\ ~deqLog[1].member /\ Finished(1)
  /\ canvasGroups # <<>>
  /\ \E i \in 1..Len(groupFiles[canvasGroups[1]]) :
       FileExists(groupFiles[canvasGroups[1]][i])


(***************************** C5 ******************************************)
\* the group executeOperation found for operation o
ExecGroup(o) == deqLog[CHOOSE k \in 1..Len(deqLog) : deqLog[k].op = o].grp

\* first position of path in a member list, 0 when it is not listed
PositionIn(files, path) ==
  LET hits == {i \in 1..Len(files) : files[i] = path}
  IN IF hits = {} THEN 0 ELSE CHOOSE i \in hits : \A j \in hits : i <= j

\* With the log and the member list given: every member but the source was
\* visited for operation o, and every member read and parsed got its modify
\* call (which the vault carried out or refused).
AllMembersVisited(log, files, o, src) ==
  /\ \A i \in 1..Len(files) :
       files[i] # src =>
         \E k \in 1..Len(log) :
           /\ log[k].op = o /\ log[k].path = files[i]
           /\ log[k].kind \in {"write"} \cup SkipKinds
  /\ \A k \in 1..Len(log) :
       (log[k].op = o /\ log[k].kind = "read") =>
         \E m \in (k + 1)..Len(log) :
           /\ log[m].op = o /\ log[m].path = log[k].path
           /\ log[m].kind \in {"write", "writefail"}

\* executeOperation of a grouped operation returns to call c in this step
ExecutionEnds(c) ==
  /\ calls'[c].pc = "ret" /\ calls'[c].grp # 0
  /\ (c > Len(calls) \/ calls[c] # calls'[c])

\* C5: the targets visited for an operation are members of the group found
\* for its source, never the source itself and never a file outside that
\* group; they are visited in member-list order; and when the execution ends
\* every other member was visited, those that could be read and parsed
\* having been handed to vault.modify.
C5_WritesOnlyToOtherMembers ==
  /\ [](\A i \in LogIndices :
          /\ ExecGroup(ioLog[i].op) # 0
          /\ ioLog[i].path # ops[ioLog[i].op].sourceFile
          /\ Includes(groupFiles[ExecGroup(ioLog[i].op)], ioLog[i].path))
  /\ [](\A i, j \in LogIndices :
          (i < j /\ ioLog[i].op = ioLog[j].op) =>
            PositionIn(groupFiles[ExecGroup(ioLog[i].op)], ioLog[i].path)
              <= PositionIn(groupFiles[ExecGroup(ioLog[j].op)], ioLog[j].path))
  /\ [][\A c \in 1..Len(calls') :
          ExecutionEnds(c) =>
            AllMembersVisited(ioLog', groupFiles'[calls'[c].grp], calls'[c].op,
                              ops'[calls'[c].op].sourceFile)]_vars

\* an operation of source A was written to two other members, in the order
\* of the member list, and A still holds what it held
C5_Witness ==
  \E i, j \in LogIndices :
    /\ i < j /\ ioLog[i].op = ioLog[j].op /\ Finished(ioLog[i].op)
    /\ ioLog[i].kind = "write" /\ ioLog[j].kind = "write"
    /\ ioLog[i].path # ioLog[j].path
    /\ ops[ioLog[i].op].sourceFile = A /\ vault[A] = EmptyCanvas

(***************************** C6 ******************************************)
\* C6: a target that is missing, or whose read, parse or modify fails, is
\* neither written nor created; the remaining members of the group are still
\* visited for that operation; and afterwards every queued operation is
\* executed and the engine comes back to idle with an empty queue.
C6_FailureIsolation ==
  /\ [][\A k \in (Len(ioLog) + 1)..Len(ioLog') :
          ioLog'[k].kind \in SkipKinds =>
            /\ (ioLog'[k].path \in DOMAIN vault') = FileExists(ioLog'[k].path)
            /\ FileExists(ioLog'[k].path) =>
                 vault'[ioLog'[k].path] = vault[ioLog'[k].path]]_vars
  /\ [][\A c \in 1..Len(calls') :
          (ExecutionEnds(c)
             /\ \E k \in 1..Len(ioLog') :
                  ioLog'[k].op = calls'[c].op /\ ioLog'[k].kind \in SkipKinds)
          => AllMembersVisited(ioLog', groupFiles'[calls'[c].grp], calls'[c].op,
                               ops'[calls'[c].op].sourceFile)]_vars
  /\ (\E k \in LogIndices : ioLog[k].kind \in SkipKinds)
       ~> (/\ ~processingOperations
           /\ operationQueue = <<>>
           /\ \A o \in 1..Len(ops) : Finished(o))

\* the first target of operation 1 failed, its next target was written, the
\* operation queued behind it was written too, and the engine is idle
C6_Witness ==
  /\ ~processingOperations /\ operationQueue = <<>>
  /\ \E i, j, k \in LogIndices :
       /\ i < j /\ j < k
       /\ ioLog[i].op = 1 /\ ioLog[i].kind \in SkipKinds
       /\ ioLog[j].op = 1 /\ ioLog[j].kind = "write"
       /\ ioLog[k].op = 2 /\ ioLog[k].kind = "write"


(***************************** C7 ******************************************)
\* the name family of a file: <prefix> of <prefix>C<n>.canvas, or the whole
\* base name when the name has no version
Family(path) ==
  LET baseName == ReplaceFirst(FileName(path), <<Ext>>, <<>>)
      match == MatchVersioned(baseName)
  IN IF match.ok THEN match.prefix ELSE baseName

\* the versions n of the members named <prefix>C<n>.canvas
VersionsOf(files, prefix) ==
  {parseInt(MatchVersionPattern(prefix, FileName(files[i])).digits) :
     i \in {j \in 1..Len(files) :
              MatchVersionPattern(prefix, FileName(files[j])).ok}}

MaxOf(S) == CHOOSE n \in S : \A m \in S : m <= n

\* C7: when a new view is derived from any member of a group whose members
\* named <prefix>C<n> have the versions n1..nk, the new file is named
\* <prefix>C<max(n1..nk)+1>, whichever member is the source, and that is the
\* path of no member of the group.
C7_VersionMonotonicity ==
  \A d \in 1..Len(derives) :
    LET k == derives[d]
        versions == VersionsOf(k.seen, Family(k.src))
    IN (k.newPath # <<>> /\ versions # {}) =>
         /\ FileName(k.newPath) =
              Family(k.src) \o <<"C">> \o NumToStr(MaxOf(versions) + 1) \o <<Ext>>
         /\ ~Includes(k.seen, k.newPath)

(***************************** C8 ******************************************)
\* createNewCanvasView call d succeeds in this step
DeriveSucceeds(d) == derives[d].pc = "create" /\ derives'[d].pc = "ok"

\* the groups of the registry that list the file
GroupsListing(path) ==
  {canvasGroups[i] : i \in {j \in 1..Len(canvasGroups) :
                              Includes(groupFiles[canvasGroups[j]], path)}}

\* a new group of exactly the source and the new file is added at the end of
\* the registry, and no other group object changes
NewGroupAdded(src, new) ==
  /\ canvasGroups' = Append(canvasGroups, Len(groupFiles) + 1)
  /\ groupFiles' = Append(groupFiles, <<src, new>>)

\* C8: a successful derivation from a file of group G appends the
\* new file to G and leaves the number of groups unchanged; from a file of no
\* group it adds exactly one group, made of the source and the new file; no
\* other member list changes.
C8_GroupClosure ==
  [][\A d \in 1..Len(derives) :
       DeriveSucceeds(d) =>
         LET src == derives[d].src
             new == derives[d].newPath
         IN IF GroupsListing(src) # {}
            THEN /\ canvasGroups' = canvasGroups
                 /\ \E G \in GroupsListing(src) :
                      groupFiles' = [groupFiles EXCEPT ![G] = Append(@, new)]
            ELSE NewGroupAdded(src, new)]_vars

(***************************** C9 ******************************************)
\* C9: every file is listed by at most one group of the registry, and at
\* most once in it.
C9_GroupsDisjoint ==
  \A i, j \in 1..Len(canvasGroups) :
    \A m \in 1..Len(groupFiles[canvasGroups[i]]) :
      \A n \in 1..Len(groupFiles[canvasGroups[j]]) :
        groupFiles[canvasGroups[i]][m] = groupFiles[canvasGroups[j]][n]
          => (i = j /\ m = n)

(***************************** C10 *****************************************)
\* createNewCanvasView call d returns null in this step
DeriveFails(d) ==
  /\ derives'[d].pc = "failed"
  /\ (d > Len(derives) \/ derives[d].pc # "failed")

\* C10: a derivation whose source is no file, or whose new path is the path
\* of an existing file, returns null; and a derivation that returns null has
\* changed no group, no member list and no file: nothing is created and the
\* existing file keeps its content.
C10_FailedDerivationAtomic ==
  [][\A d \in 1..Len(derives') :
       /\ (d > Len(derives) /\ ~FileExists(derives'[d].src)) => DeriveFails(d)
       /\ (d <= Len(derives) /\ derives[d].pc = "create"
             /\ derives'[d].pc # "create" /\ FileExists(derives[d].newPath))
            => DeriveFails(d)
       /\ DeriveFails(d) =>
            UNCHANGED <<vault, groupFiles, groupLastSync, canvasGroups>>]_vars

\* a derivation failed because a file of the new path exists, a file whose
\* content differs from the source's; and one failed for want of a source
C10_Witness ==
  /\ \E d \in 1..Len(derives) :
       /\ derives[d].pc = "failed" /\ derives[d].newPath # <<>>
       /\ FileExists(derives[d].newPath)
       /\ vault[derives[d].newPath] # derives[d].content
  /\ \E d \in 1..Len(derives) :
       derives[d].pc = "failed" /\ ~FileExists(derives[d].src)

(***************************** C11 *****************************************)
\* the target visits logged in this step
NewLog == (Len(ioLog) + 1)..Len(ioLog')

\* the edges of data whose end points are both other than id: their indices
KeptEdges(data, id) ==
  {i \in 1..Len(data.edges) :
     data.edges[i].fromNode # id /\ data.edges[i].toNode # id}

\* no edge of data has an end point that is no node of data
NoDangling(data) ==
  \A i \in 1..Len(data.edges) :
    /\ data.edges[i].fromNode \in DOMAIN data.nodes
    /\ data.edges[i].toNode \in DOMAIN data.nodes

\* after is before without the node id and without the edges touching id,
\* everything else as it was and in the same order
DeletedFrom(before, after, id) ==
  /\ DOMAIN after.nodes = (DOMAIN before.nodes) \ {id}
  /\ \A n \in DOMAIN after.nodes : after.nodes[n] = before.nodes[n]
  /\ Len(after.edges) = Cardinality(KeptEdges(before, id))
  /\ \A i \in KeptEdges(before, id) :
       after.edges[Cardinality({j \in KeptEdges(before, id) : j <= i})]
         = before.edges[i]
  /\ NoDangling(before) => NoDangling(after)

\* C11: a DeleteNode(id) written to a target removes the node keyed by id and
\* every edge whose fromNode or toNode is id; every other node and every other
\* edge is as it was, in the same order; a target without dangling edges has
\* none afterwards.
C11_DeleteCleansEdges ==
  [][\A k \in NewLog :
       (ioLog'[k].kind = "write" /\ ops[ioLog'[k].op].type = "DeleteNode") =>
         DeletedFrom(JSONparse(vault[ioLog'[k].path]),
                     JSONparse(vault'[ioLog'[k].path]),
                     ops[ioLog'[k].op].nodeId)]_vars

\* DeleteNode(n1) is about to be written to a target holding n1 and n2 with an
\* edge n1 -> n2 before an edge n2 -> n2: the data to write keeps n2 and the
\* second edge only
C11_Witness ==
  \E c \in 1..Len(calls) :
    /\ calls[c].pc = "write" /\ ops[calls[c].op].type = "DeleteNode"
    /\ DOMAIN vault[AC1].nodes = {"n1", "n2"}
    /\ vault[AC1].edges = <<Edge("n1", "n2"), Edge("n2", "n2")>>
    /\ DOMAIN calls[c].data.nodes = {"n2"}
    /\ calls[c].data.edges = <<Edge("n2", "n2")>>

(***************************** C12 *****************************************)
\* after is before with the text of node id replaced when before has that
\* node, and before itself when it has not
TextUpdated(before, after, id, text) ==
  /\ after.edges = before.edges
  /\ DOMAIN after.nodes = DOMAIN before.nodes
  /\ \A n \in DOMAIN before.nodes :
       IF n = id
       THEN after.nodes[n].text = text /\ after.nodes[n].id = before.nodes[n].id
       ELSE after.nodes[n] = before.nodes[n]

\* C12: an UpdateNodeText(id, text) written to a target replaces the text of
\* the node keyed by id when the target has it, and otherwise creates no node
\* and leaves nodes and edges as they were; no other node and no edge changes;
\* and a target read and parsed for it goes on to vault.modify, the missing
\* node being no error.
C12_UpdateTextOrNoOp ==
  /\ [][\A k \in NewLog :
          (ioLog'[k].kind = "write" /\ ops[ioLog'[k].op].type = "UpdateNodeText") =>
            TextUpdated(JSONparse(vault[ioLog'[k].path]),
                        JSONparse(vault'[ioLog'[k].path]),
                        ops[ioLog'[k].op].nodeId, ops[ioLog'[k].op].text)]_vars
  /\ [][\A k \in NewLog :
          (ioLog'[k].kind = "read" /\ ops[ioLog'[k].op].type = "UpdateNodeText") =>
            \E c \in 1..Len(calls') :
              /\ calls'[c].pc = "write" /\ calls'[c].op = ioLog'[k].op
              /\ groupFiles'[calls'[c].grp][calls'[c].idx] = ioLog'[k].path]_vars

\* UpdateNodeText(n1) alone was written to a target that holds n2 and an edge
\* from n1 but no node n1: the file written holds what the target held
C12_Witness ==
  /\ Len(ops) = 1 /\ ops[1].type = "UpdateNodeText" /\ ops[1].nodeId = "n1"
  /\ \E k \in LogIndices : ioLog[k].kind = "write" /\ ioLog[k].path = AC1
  /\ vault[AC1].pretty
  /\ DOMAIN vault[AC1].nodes = {"n2"}
  /\ vault[AC1].nodes["n2"].text = "old"
  /\ vault[AC1].edges = <<Edge("n1", "n2")>>

(***************************** C13 *****************************************)
\* the member lists of the registry, and those of the data file
Members == [i \in 1..Len(canvasGroups) |-> groupFiles[canvasGroups[i]]]
SavedMembers == [i \in 1..Len(savedData) |-> savedData[i].files]

\* C13: after every step that changes the membership of the registry (a
\* derivation that adds a group or appends a member, the deletion of a group,
\* the reset of all groups) the data file lists the groups of the registry
\* with the same members, and so it does after onunload.
C13_SavedOnMembershipChange ==
  [][(Members' # Members \/ loaded' # loaded) => SavedMembers' = Members']_vars

(***************************** C14 *****************************************)
\* C14: whenever no processOperation call is inside its loop (the engine is
\* idle, its flag cleared) the operation queue is empty; a loop only ends
\* with the queue empty.
C14_IdleQueueEmpty ==
  /\ []((~Draining \/ ~processingOperations) => operationQueue = <<>>)
  /\ [][(Draining /\ ~Draining') => operationQueue' = <<>>]_vars

\* a loop took its own operation and one queued behind it, and ended
C14_Witness ==
  /\ Len(calls) = 2 /\ calls[1].pc = "done" /\ calls[2].pc = "returned"
  /\ Len(deqLog) = 2
  /\ ~Draining /\ operationQueue = <<>>

(***************************** C15 *****************************************)
\* C15: when a derivation creates the new file, the new file holds what the
\* source file holds at that moment, whatever was written to the source
\* since the derivation read it.
C15_SnapshotCopy ==
  [][\A d \in 1..Len(derives) :
       DeriveSucceeds(d) =>
         /\ derives[d].src \in DOMAIN vault'
         /\ vault'[derives[d].newPath] = vault'[derives[d].src]]_vars

(***************************** C16 *****************************************)
\* operation o was written to a target
Persisted(log, o) ==
  \E k \in 1..Len(log) : log[k].op = o /\ log[k].kind = "write"

\* C16: when the execution of an operation ends without a single target
\* written (every target missing or failing, or no member but the source),
\* the lastSync of its group is not the time of that operation.
C16_LastSyncOnlyOnSuccess ==
  [][\A c \in 1..Len(calls') :
       (ExecutionEnds(c) /\ ~Persisted(ioLog', calls'[c].op)) =>
         groupLastSync'[calls'[c].grp] # Stamp("op", calls'[c].op)]_vars

(***************************** C17 *****************************************)
\* the containing location of a path: what precedes its last component
DirOf(path) == SubSeq(path, 1, Len(path) - Len(FileName(path)))

\* the base name of a canvas file: its name without the extension
BaseOf(path) == SubSeq(FileName(path), 1, Len(FileName(path)) - 1)

\* base is <prefix>C<n> with a prefix and a number
HasVersion(base) ==
  /\ TrailingDigits(base) >= 1
  /\ Len(base) - TrailingDigits(base) >= 2
  /\ base[Len(base) - TrailingDigits(base)] = "C"

\* C17: the new file of a derivation lies in the folder of its source; from a
\* source of no group named <prefix>C<n> it is named <prefix>C<n+1>; from a
\* source whose name has no C<digits> suffix, grouped or not, it is named
\* <baseName>C1.
C17_UngroupedNaming ==
  \A d \in 1..Len(derives) :
    LET src == derives[d].src
        new == derives[d].newPath
        base == BaseOf(src)
        k == TrailingDigits(base)
    IN new # <<>> =>
         /\ DirOf(new) = DirOf(src)
         /\ (HasVersion(base) /\ derives[d].seen = <<>>) =>
              FileName(new) =
                SubSeq(base, 1, Len(base) - k - 1) \o <<"C">>
                  \o NumToStr(parseInt(SubSeq(base, Len(base) - k + 1, Len(base))) + 1)
                  \o <<Ext>>
         /\ (k = 0 \/ (Len(base) > k /\ base[Len(base) - k] # "C")) =>
              FileName(new) = base \o <<"C", "1", Ext>>

(***************************** C18 *****************************************)
\* C18: processingOperations is set exactly while one processOperation call
\* is inside its loop, also after a target failed and after an operation of
\* an ungrouped source returned early: the flag is never left set without a
\* loop to clear it.
C18_FlagIffLoopActive ==
  /\ processingOperations <=> Cardinality(LoopCalls) = 1
  /\ ~processingOperations <=> LoopCalls = {}

\* the loop of the first call met a failing target and ended with the flag
\* cleared; the next call did not find the flag set, ran its own loop, wrote
\* to a target and ended
C18_Witness ==
  /\ Len(calls) >= 2 /\ calls[1].pc = "done" /\ calls[2].pc = "done"
  /\ ~processingOperations
  /\ \E k \in LogIndices : ioLog[k].op = 1 /\ ioLog[k].kind \in SkipKinds
  /\ Persisted(ioLog, 2)

(***************************** C19 *****************************************)
\* an operation is taken from the queue in this step
Dequeues == Len(deqLog') = Len(deqLog) + 1

\* C19: the group of an operation is looked up in the registry as it is when
\* the operation is taken from the queue; an operation whose source is in no
\* group by then (the group was deleted, or all were reset, after the
\* operation was submitted) visits and writes no file; a file is only
\* written for a source that is in no group any more when the execution of
\* that operation began while the source was in a group.
C19_GroupResolvedAtDequeue ==
  /\ [][Dequeues =>
          deqLog'[Len(deqLog')].grp =
            FindGroupIn(canvasGroups, groupFiles,
                        ops'[deqLog'[Len(deqLog')].op].sourceFile)]_vars
  /\ [](\A k \in 1..Len(deqLog) :
          deqLog[k].grp = 0 => \A i \in LogIndices : ioLog[i].op # deqLog[k].op)
  /\ [][\A i \in NewLog :
          ~InSomeGroup(ops'[ioLog'[i].op].sourceFile) =>
            \E k \in 1..Len(deqLog') :
              deqLog'[k].op = ioLog'[i].op /\ deqLog'[k].member]_vars

\* two operations of the same source: the first found its group and was
\* written to a target; the second, submitted while the first was executed,
\* was taken from the queue after the group had been removed, found no group
\* and visited no file
C19_Witness ==
  /\ unlinks = 1 /\ Len(deqLog) = 2
  /\ calls[2].pc = "returned"
  /\ ops[1].sourceFile = ops[2].sourceFile
  /\ deqLog[1].grp # 0 /\ Persisted(ioLog, 1)
  /\ deqLog[2].grp = 0 /\ Finished(2)
  /\ \A i \in LogIndices : ioLog[i].op # 2

(***************************** C20 *****************************************)
\* a step of processOperation or of the executeOperation it awaits
PropagationStep == calls' # calls

\* C20: a step of the propagation changes neither the groups of the
\* registry, nor the member list of any group, nor the set of existing files,
\* nor the data file, nor a derivation; the only file whose content it may
\* change is the target written in that step, a member of the operation's
\* group other than its source.
C20_PropagationFrame ==
  [][PropagationStep =>
       /\ UNCHANGED <<canvasGroups, groupFiles, derives, savedData, loaded>>
       /\ DOMAIN vault' = DOMAIN vault
       /\ \A p \in DOMAIN vault :
            vault'[p] # vault[p] =>
              \E k \in NewLog :
                /\ ioLog'[k].kind = "write" /\ ioLog'[k].path = p
                /\ p # ops[ioLog'[k].op].sourceFile
                /\ Includes(groupFiles[ExecGroup(ioLog'[k].op)], p)]_vars

\* three operations were submitted and drained with nothing else going on:
\* a target holds new content, lastSync is the time of the last operation,
\* and the group and the files are those of the start
C20_Witness ==
  /\ Len(ops) = 3 /\ Len(derives) = 0 /\ unlinks = 0 /\ loaded
  /\ \A o \in 1..3 : Finished(o)
  /\ Persisted(ioLog, 3)
  /\ Members = Scenario1.files
  /\ DOMAIN vault = DOMAIN Scenario1.vault
  /\ vault[AC1] # Scenario1.vault[AC1]
  /\ groupLastSync[1] = Stamp("op", 3)

====
